---- MODULE Spec2Model ----
(***************************************************************************)
(* Model of the Rot2proG controller session of rot2proG_serial_v2.py: the  *)
(* cached pulse resolution, the serial transport and the STATUS, STOP, SET *)
(* and set_dev_path operations, called by two threads on one session.      *)
(* No operation holds a lock, so each is cut into steps at its accesses to *)
(* the shared self.pulse, self.ser and self.dev_path: entering a call is a  *)
(* step, and so is each access; the statements between two accesses touch  *)
(* only locals and belong to the step before.  The port is opened with     *)
(* timeout=None, so the receive buffer is a stream of bytes of which        *)
(* read(12) takes exactly 12, waiting for them as long as it takes.         *)
(*                                                                         *)
(* Degrees given to set() are integers counting 1/Unit of a degree (with   *)
(* Unit = 8 every such value and every product with a pulse byte is exact  *)
(* in double arithmetic, so int(...) is the exact truncation).  Degrees    *)
(* returned by status()/stop() are integers counting tenths of a degree:   *)
(* b1*100 + b2*10 + b3 + b4/10 - 360.0 is (b1*1000+b2*100+b3*10+b4-3600)/10.*)
(***************************************************************************)
EXTENDS Integers, Sequences, FiniteSets, TLC

\* ---------------------------------------------------------------- bounds
Unit == 8
MaxOps == 2

\* ------------------------------------------------------ program constants
max_az == 360
min_az == -180
max_el == 180
min_el == 0

Threads == {"t1", "t2"}

Paths == {"COM17", "COM18", "nodev"}
\* the device paths serial.Serial() can open; any other raises SerialException
Openable == {"COM17", "COM18"}

\* ------------------------------------------------------------ input sets
\* targets given to set(), in 1/Unit degree
AzInputs == {-181 * Unit, -1, 90 * Unit, 400 * Unit}
ElInputs == {-1, 90 * Unit, 90 * Unit + 5, 181 * Unit}

\* all targets from just below to just above the azimuth and elevation ranges
AzGrid == (min_az * Unit - 2)..(max_az * Unit + 2)
ElGrid == (min_el * Unit - 2)..(max_el * Unit + 2)

\* pulse resolutions a response byte can carry
PulseVals == {0, 1, 10}
CodecPulses == {1, 2, 4, 10, 14, 100, 255}

Frame(azd, ph, eld, pv) == <<87>> \o azd \o <<ph>> \o eld \o <<pv, 32>>

\* the bytes the device may send for one command: answers with PH = PV,
\* answers with PH # PV, answers that lack their last bytes, and no answer
Responses ==
    { Frame(<<4, 5, 0, 0>>, 1, <<4, 5, 0, 0>>, 1),
      Frame(<<1, 8, 0, 5>>, 10, <<3, 6, 0, 0>>, 10),
      Frame(<<4, 5, 0, 0>>, 0, <<4, 5, 0, 0>>, 0),
      Frame(<<4, 5, 0, 0>>, 1, <<4, 5, 0, 0>>, 10),
      Frame(<<1, 8, 0, 5>>, 10, <<3, 6, 0, 0>>, 0),
      SubSeq(Frame(<<4, 5, 0, 0>>, 1, <<4, 5, 0, 0>>, 1), 1, 11),
      SubSeq(Frame(<<4, 5, 0, 0>>, 1, <<4, 5, 0, 0>>, 1), 1, 10),
      <<>> }

\* 12-byte answers over arbitrary byte values in the digit fields
ByteSamples == {0, 9, 255}
DigitFields == [1..4 -> ByteSamples]
WideResponses ==
    { Frame(a, pp[1], e, pp[2]) :
        a \in DigitFields, e \in {<<4, 5, 0, 0>>, <<0, 0, 0, 7>>},
        pp \in {<<2, 2>>, <<7, 7>>, <<2, 7>>} }
    \cup { Frame(a, pp[1], e, pp[2]) :
        a \in {<<4, 5, 0, 0>>, <<0, 0, 0, 7>>}, e \in DigitFields,
        pp \in {<<2, 2>>, <<7, 7>>, <<2, 7>>} }
    \cup Responses

VARIABLES pulse, dev_path, ser, written, rx, pc, loc, result, ops

vars == <<pulse, dev_path, ser, written, rx, pc, loc, result, ops>>

\* ------------------------------------------------------------- the codec
StatusCmd == <<87, 0, 0, 0, 0, 0, 0, 0, 0, 0, 0, 31, 32>>
StopCmd == <<87, 0, 0, 0, 0, 0, 0, 0, 0, 0, 0, 15, 32>>

\* int(x) of the float num / den: truncation towards zero
IntTrunc(num, den) ==
    IF num >= 0 THEN num \div den ELSE -((-num) \div den)

\* str(n) of an integer n >= 0, as the sequence of its decimal digits
RECURSIVE Str(_)
Str(n) == IF n < 10 THEN <<n>> ELSE Str(n \div 10) \o <<n % 10>>

\* s[-k] of a string: the k-th character from the end
FromEnd(s, k) == s[Len(s) - k + 1]

\* in_range with the assertion on the upper azimuth limit left out
in_range_no_az_max(azi, eli) ==
    /\ azi >= min_az * Unit
    /\ eli <= max_el * Unit
    /\ eli >= min_el * Unit

\* the four range assertions of set()
in_range(azi, eli) ==
    /\ azi <= max_az * Unit
    /\ azi >= min_az * Unit
    /\ eli <= max_el * Unit
    /\ eli >= min_el * Unit

\* set_digits with round() in the place of int()
set_digits_round(p, v) ==
    <<0>> \o Str((2 * p * (v + 360 * Unit) + Unit) \div (2 * Unit))

\* set_digits padding with "0000" in the place of "0"
set_digits_zfill(p, v) ==
    <<0, 0, 0, 0>> \o Str(IntTrunc(p * (v + 360 * Unit), Unit))

\* "0" + str(int(self.pulse * (float(v) + 360)))
set_digits(p, v) == <<0>> \o Str(IntTrunc(p * (v + 360 * Unit), Unit))

\* line 163 up to the first self.pulse: [0x57, int(az[-4]), .., int(az[-1]), p
set_az_bytes(az, p) ==
    IF Len(az) < 4
    THEN [err |-> "IndexError", cmd |-> <<>>]
    ELSE [err |-> "none",
          cmd |-> <<87, FromEnd(az, 4), FromEnd(az, 3), FromEnd(az, 2),
                    FromEnd(az, 1), p>>]

\* the rest of line 163 and bytes(cmd): int(el[-4]), .., int(el[-1]), p, 0x2f, 0x20]
set_cmd(head, el, p) ==
    IF Len(el) < 4
    THEN [err |-> "IndexError", cmd |-> <<>>]
    ELSE LET cmd == head \o <<FromEnd(el, 4), FromEnd(el, 3), FromEnd(el, 2),
                              FromEnd(el, 1), p, 47, 32>>
         IN  IF \E i \in 1..Len(cmd) : cmd[i] \notin 0..255
             THEN [err |-> "ValueError", cmd |-> <<>>]
             ELSE [err |-> "none", cmd |-> cmd]

\* status_decode with self.pulse = ph moved before the assertion
status_decode_early_pulse(rec, p) ==
    IF Len(rec) < 11
    THEN [err |-> "IndexError", ret |-> <<>>, pulse |-> p]
    ELSE IF rec[6] # rec[11]
    THEN [err |-> "AssertionError", ret |-> <<>>, pulse |-> rec[6]]
    ELSE [err |-> "none",
          ret |-> <<rec[2] * 1000 + rec[3] * 100 + rec[4] * 10 + rec[5] - 3600,
                    rec[7] * 1000 + rec[8] * 100 + rec[9] * 10 + rec[10] - 3600,
                    rec[6]>>,
          pulse |-> rec[6]]

\* status_decode with the elevation taken without the - 360.0 offset
status_decode_el_no_offset(rec, p) ==
    IF Len(rec) < 11
    THEN [err |-> "IndexError", ret |-> <<>>, pulse |-> p]
    ELSE IF rec[6] # rec[11]
    THEN [err |-> "AssertionError", ret |-> <<>>, pulse |-> p]
    ELSE [err |-> "none",
          ret |-> <<rec[2] * 1000 + rec[3] * 100 + rec[4] * 10 + rec[5] - 3600,
                    rec[7] * 1000 + rec[8] * 100 + rec[9] * 10 + rec[10],
                    rec[6]>>,
          pulse |-> rec[6]]

\* status() after the read: indexing, the assertion, the update of self.pulse
\* (rec_packet[i] of the source is rec[i + 1] here)
status_decode(rec, p) ==
    IF Len(rec) < 11
    THEN [err |-> "IndexError", ret |-> <<>>, pulse |-> p]
    ELSE LET az == rec[2] * 1000 + rec[3] * 100 + rec[4] * 10 + rec[5] - 3600
             el == rec[7] * 1000 + rec[8] * 100 + rec[9] * 10 + rec[10] - 3600
             ph == rec[6]
             pv == rec[11]
         IN  IF ph # pv
             THEN [err |-> "AssertionError", ret |-> <<>>, pulse |-> p]
             ELSE [err |-> "none", ret |-> <<az, el, ph>>, pulse |-> ph]

\* stop_decode without the update of self.pulse
stop_decode_no_pulse_update(rec, p) ==
    IF Len(rec) < 11
    THEN [err |-> "IndexError", ret |-> <<>>, pulse |-> p]
    ELSE IF rec[6] # rec[11]
    THEN [err |-> "AssertionError", ret |-> <<>>, pulse |-> p]
    ELSE [err |-> "none",
          ret |-> <<rec[2] * 1000 + rec[3] * 100 + rec[4] * 10 + rec[5] - 3600,
                    rec[7] * 1000 + rec[8] * 100 + rec[9] * 10 + rec[10] - 3600,
                    rec[6]>>,
          pulse |-> p]

\* stop() after the read
stop_decode(rec, p) ==
    IF Len(rec) < 11
    THEN [err |-> "IndexError", ret |-> <<>>, pulse |-> p]
    ELSE LET az == rec[2] * 1000 + rec[3] * 100 + rec[4] * 10 + rec[5] - 3600
             el == rec[7] * 1000 + rec[8] * 100 + rec[9] * 10 + rec[10] - 3600
             ph == rec[6]
             pv == rec[11]
         IN  IF ph # pv
             THEN [err |-> "AssertionError", ret |-> <<>>, pulse |-> p]
             ELSE [err |-> "none", ret |-> <<az, el, ph>>, pulse |-> ph]

\* ------------------------------------------------------------ the session
\* what a call left its caller with: the exception ("running" until the call
\* ends) or the returned list, the arguments, the bytes read, self.pulse as
\* line 160 of set() read it (-1 before that, and in the other calls) and the
\* bytes the device sent in answer to the call's command; n numbers the calls
\* in the order they were entered
NoResult == [op |-> "none", n |-> 0, azi |-> 0, eli |-> 0, resp |-> <<>>,
             err |-> "none", ret |-> <<>>, pulse |-> -1, sent |-> <<>>]

Outcome(op, n, azi, eli, resp, err, ret, p) ==
    [op |-> op, n |-> n, azi |-> azi, eli |-> eli, resp |-> resp,
     err |-> err, ret |-> ret, pulse |-> p, sent |-> <<>>]

\* the locals of a call: az, el and cmd of set(), rec_packet of status() and
\* stop(), path and old_path of set_dev_path(), and the Serial object (by the
\* number of its opening) whose read(12) the call is in
NoLoc == [az |-> <<>>, el |-> <<>>, cmd |-> <<>>, rec |-> <<>>,
          path |-> "", old |-> "", gen |-> 0]

Idle == <<"idle", "call">>

\* a call is entered: nothing of the session is read or written yet
Begin(t, op, azi, eli, stage) ==
    /\ pc[t] = Idle
    /\ ops' = ops + 1
    /\ pc' = [pc EXCEPT ![t] = <<op, stage>>]
    /\ result' = [result EXCEPT
          ![t] = Outcome(op, ops + 1, azi, eli, <<>>, "running", <<>>, -1)]

\* the call ends: it raises err or returns ret
End(t, resp, err, ret) ==
    /\ pc' = [pc EXCEPT ![t] = Idle]
    /\ loc' = [loc EXCEPT ![t] = NoLoc]
    /\ result' = [result EXCEPT
          ![t] = [@ EXCEPT !.resp = resp, !.err = err, !.ret = ret]]

\* the bytes r as they wait in the receive buffer, each with the thread whose
\* command they answer
Tagged(r, t) == [i \in 1..Len(r) |-> <<r[i], t>>]

\* __init__: the port is opened and one status() has set self.pulse
Init ==
    /\ pulse \in PulseVals
    /\ dev_path = "COM17"
    /\ ser = [open |-> TRUE, port |-> "COM17", gen |-> 1]
    /\ written = <<StatusCmd>>
    /\ rx = <<>>
    /\ pc = [t \in Threads |-> Idle]
    /\ loc = [t \in Threads |-> NoLoc]
    /\ result = [t \in Threads |-> NoResult]
    /\ ops = 0

\* status() is entered
StatusCall(t) ==
    /\ Begin(t, "status", 0, 0, "write")
    /\ UNCHANGED <<pulse, dev_path, ser, written, rx, loc>>

\* stop() is entered
StopCall(t) ==
    /\ Begin(t, "stop", 0, 0, "write")
    /\ UNCHANGED <<pulse, dev_path, ser, written, rx, loc>>

\* self.ser.write(packet) of status() or stop(); the device answers the
\* command with the bytes r, which join the bytes waiting in the receive
\* buffer; a closed port raises PortNotOpenError
SendCmd(t, op, cmd, r) ==
    /\ pc[t] = <<op, "write">>
    /\ IF ser.open
       THEN /\ written' = Append(written, cmd)
            /\ rx' = rx \o Tagged(r, t)
            /\ pc' = [pc EXCEPT ![t] = <<op, "flush">>]
            /\ result' = [result EXCEPT ![t].sent = r]
            /\ UNCHANGED loc
       ELSE /\ End(t, <<>>, "SerialException", <<>>)
            /\ UNCHANGED <<written, rx>>
    /\ UNCHANGED <<pulse, dev_path, ser, ops>>

StatusWrite(t, r) == SendCmd(t, "status", StatusCmd, r)

StopWrite(t, r) == SendCmd(t, "stop", StopCmd, r)

\* self.ser.flush() of status(), stop() or set()
Flush(t, op) ==
    /\ pc[t] = <<op, "flush">>
    /\ IF ~ser.open
       THEN End(t, <<>>, "SerialException", <<>>)
       ELSE IF op = "set"
       THEN End(t, <<>>, "none", <<>>)
       ELSE /\ pc' = [pc EXCEPT ![t] = <<op, "read">>]
            /\ UNCHANGED <<loc, result>>
    /\ UNCHANGED <<pulse, dev_path, ser, written, rx, ops>>

StatusFlush(t) == Flush(t, "status")

StopFlush(t) == Flush(t, "stop")

SetFlush(t) == Flush(t, "set")

\* self.ser.read(12) is called: on a closed port it raises PortNotOpenError,
\* on an open one the call is now in the read of that Serial object
ReadCall(t, op) ==
    /\ pc[t] = <<op, "read">>
    /\ IF ~ser.open
       THEN End(t, <<>>, "SerialException", <<>>)
       ELSE /\ loc' = [loc EXCEPT ![t].gen = ser.gen]
            /\ pc' = [pc EXCEPT ![t] = <<op, "wait">>]
            /\ UNCHANGED result
    /\ UNCHANGED <<pulse, dev_path, ser, written, rx, ops>>

StatusReadCall(t) == ReadCall(t, "status")

StopReadCall(t) == ReadCall(t, "stop")

\* rec_packet = self.ser.read(12) returns: the port is opened with
\* timeout=None, so the read waits until 12 bytes are in the receive buffer and
\* takes exactly the 12 oldest, whichever answers they came with; when the
\* Serial object has been closed meanwhile the read fails (or waits for ever)
ReadReply(t, op) ==
    /\ pc[t] = <<op, "wait">>
    /\ IF ~ser.open \/ ser.gen # loc[t].gen
       THEN /\ End(t, <<>>, "SerialException", <<>>)
            /\ UNCHANGED rx
       ELSE /\ Len(rx) >= 12
            /\ rx' = SubSeq(rx, 13, Len(rx))
            /\ loc' = [loc EXCEPT ![t].rec = [i \in 1..12 |-> rx[i][1]]]
            /\ pc' = [pc EXCEPT ![t] = <<op, "decode">>]
            /\ UNCHANGED result
    /\ UNCHANGED <<pulse, dev_path, ser, written, ops>>

StatusRead(t) == ReadReply(t, "status")

StopRead(t) == ReadReply(t, "stop")

\* status() from az = ... to return ret
StatusDecode(t) ==
    /\ pc[t] = <<"status", "decode">>
    /\ LET out == status_decode(loc[t].rec, pulse)
       IN  /\ pulse' = out.pulse
           /\ End(t, loc[t].rec, out.err, out.ret)
    /\ UNCHANGED <<dev_path, ser, written, rx, ops>>

\* stop() from az = ... to return ret
StopDecode(t) ==
    /\ pc[t] = <<"stop", "decode">>
    /\ LET out == stop_decode(loc[t].rec, pulse)
       IN  /\ pulse' = out.pulse
           /\ End(t, loc[t].rec, out.err, out.ret)
    /\ UNCHANGED <<dev_path, ser, written, rx, ops>>

\* set(azi, eli) is entered: the four assertions
SetCall(t, azi, eli) ==
    /\ pc[t] = Idle
    /\ ops' = ops + 1
    /\ IF ~in_range(azi, eli)
       THEN /\ result' = [result EXCEPT
                  ![t] = Outcome("set", ops + 1, azi, eli, <<>>, "AssertionError", <<>>, -1)]
            /\ UNCHANGED pc
       ELSE /\ result' = [result EXCEPT
                  ![t] = Outcome("set", ops + 1, azi, eli, <<>>, "running", <<>>, -1)]
            /\ pc' = [pc EXCEPT ![t] = <<"set", "az">>]
    /\ UNCHANGED <<pulse, dev_path, ser, written, rx, loc>>

\* line 160, the first read of self.pulse
SetAz(t) ==
    /\ pc[t] = <<"set", "az">>
    /\ loc' = [loc EXCEPT ![t].az = set_digits(pulse, result[t].azi)]
    /\ result' = [result EXCEPT ![t].pulse = pulse]
    /\ pc' = [pc EXCEPT ![t] = <<"set", "el">>]
    /\ UNCHANGED <<pulse, dev_path, ser, written, rx, ops>>

\* line 161, the second read of self.pulse
SetEl(t) ==
    /\ pc[t] = <<"set", "el">>
    /\ loc' = [loc EXCEPT ![t].el = set_digits(pulse, result[t].eli)]
    /\ pc' = [pc EXCEPT ![t] = <<"set", "ph">>]
    /\ UNCHANGED <<pulse, dev_path, ser, written, rx, result, ops>>

\* line 163 up to the third read of self.pulse
SetPh(t) ==
    /\ pc[t] = <<"set", "ph">>
    /\ LET out == set_az_bytes(loc[t].az, pulse)
       IN  IF out.err # "none"
           THEN End(t, <<>>, out.err, <<>>)
           ELSE /\ loc' = [loc EXCEPT ![t].cmd = out.cmd]
                /\ pc' = [pc EXCEPT ![t] = <<"set", "pv">>]
                /\ UNCHANGED result
    /\ UNCHANGED <<pulse, dev_path, ser, written, rx, ops>>

\* the rest of line 163, with the fourth read of self.pulse, and bytes(cmd)
SetPv(t) ==
    /\ pc[t] = <<"set", "pv">>
    /\ LET out == set_cmd(loc[t].cmd, loc[t].el, pulse)
       IN  IF out.err # "none"
           THEN End(t, <<>>, out.err, <<>>)
           ELSE /\ loc' = [loc EXCEPT ![t].cmd = out.cmd]
                /\ pc' = [pc EXCEPT ![t] = <<"set", "write">>]
                /\ UNCHANGED result
    /\ UNCHANGED <<pulse, dev_path, ser, written, rx, ops>>

\* self.ser.write(packet) of set(): the device sends no response
SetWrite(t) ==
    /\ pc[t] = <<"set", "write">>
    /\ IF ~ser.open
       THEN /\ End(t, <<>>, "SerialException", <<>>)
            /\ UNCHANGED written
       ELSE /\ written' = Append(written, loc[t].cmd)
            /\ pc' = [pc EXCEPT ![t] = <<"set", "flush">>]
            /\ UNCHANGED <<loc, result>>
    /\ UNCHANGED <<pulse, dev_path, ser, rx, ops>>

\* set_dev_path(path) is entered
SdpCall(t, path) ==
    /\ Begin(t, "set_dev_path", 0, 0, "old")
    /\ loc' = [loc EXCEPT ![t].path = path]
    /\ UNCHANGED <<pulse, dev_path, ser, written, rx>>

\* old_path = self.dev_path
SdpOld(t) ==
    /\ pc[t] = <<"set_dev_path", "old">>
    /\ loc' = [loc EXCEPT ![t].old = dev_path]
    /\ pc' = [pc EXCEPT ![t] = <<"set_dev_path", "close">>]
    /\ UNCHANGED <<pulse, dev_path, ser, written, rx, result, ops>>

\* self.ser.close(): the bytes waiting in the receive buffer are lost
SdpClose(t) ==
    /\ pc[t] = <<"set_dev_path", "close">>
    /\ ser' = [ser EXCEPT !.open = FALSE]
    /\ rx' = <<>>
    /\ pc' = [pc EXCEPT ![t] = <<"set_dev_path", "open">>]
    /\ UNCHANGED <<pulse, dev_path, written, loc, result, ops>>

\* self.ser = serial.Serial(port=str(path), ...): serial.Serial() raises
\* SerialException for a port it cannot open, and only AttributeError is caught
SdpOpen(t) ==
    /\ pc[t] = <<"set_dev_path", "open">>
    /\ LET raised == IF loc[t].path \in Openable THEN "none" ELSE "SerialException"
       IN  IF raised = "none"
           THEN /\ ser' = [open |-> TRUE, port |-> loc[t].path, gen |-> ser.gen + 1]
                /\ pc' = [pc EXCEPT ![t] = <<"set_dev_path", "path">>]
                /\ UNCHANGED <<dev_path, loc, result>>
           ELSE IF raised = "AttributeError"
           THEN /\ ser' = [open |-> TRUE, port |-> loc[t].old, gen |-> ser.gen + 1]
                /\ dev_path' = loc[t].old
                /\ End(t, <<>>, "none", <<>>)
           ELSE /\ End(t, <<>>, raised, <<>>)
                /\ UNCHANGED <<ser, dev_path>>
    /\ UNCHANGED <<pulse, written, rx, ops>>

\* self.dev_path = str(path)
SdpPath(t) ==
    /\ pc[t] = <<"set_dev_path", "path">>
    /\ dev_path' = loc[t].path
    /\ End(t, <<>>, "none", <<>>)
    /\ UNCHANGED <<pulse, ser, written, rx, ops>>

\* the steps that continue a call
Step(t) ==
    \/ StatusFlush(t)
    \/ StopFlush(t)
    \/ SetFlush(t)
    \/ StatusReadCall(t)
    \/ StopReadCall(t)
    \/ StatusRead(t)
    \/ StopRead(t)
    \/ StatusDecode(t)
    \/ StopDecode(t)
    \/ SetAz(t)
    \/ SetEl(t)
    \/ SetPh(t)
    \/ SetPv(t)
    \/ SetWrite(t)
    \/ SdpOld(t)
    \/ SdpClose(t)
    \/ SdpOpen(t)
    \/ SdpPath(t)

Next ==
    \/ ops < MaxOps /\ \E t \in Threads : StatusCall(t)
    \/ ops < MaxOps /\ \E t \in Threads : StopCall(t)
    \/ ops < MaxOps /\ \E t \in Threads, azi \in AzInputs, eli \in ElInputs :
                          SetCall(t, azi, eli)
    \/ ops < MaxOps /\ \E t \in Threads, path \in Paths : SdpCall(t, path)
    \/ \E t \in Threads, r \in Responses : StatusWrite(t, r)
    \/ \E t \in Threads, r \in Responses : StopWrite(t, r)
    \/ \E t \in Threads : Step(t)

Spec == Init /\ [][Next]_vars

\* one set() call over the whole grid of targets and pulse resolutions
InitCodec ==
    /\ pulse \in CodecPulses
    /\ dev_path = "COM17"
    /\ ser = [open |-> TRUE, port |-> "COM17", gen |-> 1]
    /\ written = <<StatusCmd>>
    /\ rx = <<>>
    /\ pc = [t \in Threads |-> Idle]
    /\ loc = [t \in Threads |-> NoLoc]
    /\ result = [t \in Threads |-> NoResult]
    /\ ops = 0

NextCodec ==
    \/ ops < 1 /\ \E t \in Threads, azi \in AzGrid : SetCall(t, azi, 90 * Unit)
    \/ ops < 1 /\ \E t \in Threads, azi \in {90 * Unit, -1}, eli \in ElGrid :
                     SetCall(t, azi, eli)
    \/ \E t \in Threads : SetAz(t)
    \/ \E t \in Threads : SetEl(t)
    \/ \E t \in Threads : SetPh(t)
    \/ \E t \in Threads : SetPv(t)
    \/ \E t \in Threads : SetWrite(t)
    \/ \E t \in Threads : SetFlush(t)

SpecCodec == InitCodec /\ [][NextCodec]_vars

\* one status() or stop() exchange over the wide set of answers
NextDecode ==
    \/ ops < 1 /\ \E t \in Threads : StatusCall(t)
    \/ ops < 1 /\ \E t \in Threads : StopCall(t)
    \/ \E t \in Threads :
          pc[t] = <<"status", "write">> /\ \E r \in WideResponses : StatusWrite(t, r)
    \/ \E t \in Threads :
          pc[t] = <<"stop", "write">> /\ \E r \in WideResponses : StopWrite(t, r)
    \/ \E t \in Threads : StatusFlush(t)
    \/ \E t \in Threads : StopFlush(t)
    \/ \E t \in Threads : StatusReadCall(t)
    \/ \E t \in Threads : StopReadCall(t)
    \/ \E t \in Threads : StatusRead(t)
    \/ \E t \in Threads : StopRead(t)
    \/ \E t \in Threads : StatusDecode(t)
    \/ \E t \in Threads : StopDecode(t)

SpecDecode == Init /\ [][NextDecode]_vars

\* ------------------------------------------------------------- the claims
\* the step is thread t entering set()
SetCallStep(t) ==
    pc[t] = Idle /\ ops' = ops + 1 /\ result'[t].n = ops' /\ result'[t].op = "set"

\* the step is a later step of thread t's call of set()
SetLaterStep(t) == pc[t][1] = "set" /\ pc'[t] # pc[t]

\* the step is the first read of self.pulse (line 160) in thread t's set()
SetAzStep(t) == pc[t] = <<"set", "az">> /\ pc'[t] # pc[t]

\* the step is the return of thread t's self.ser.read(12) with its 12 bytes
ReadStep(t) ==
    /\ pc[t] \in {<<"status", "wait">>, <<"stop", "wait">>}
    /\ pc'[t] \in {<<"status", "decode">>, <<"stop", "decode">>}

\* the step is the rest of thread t's status() or stop() after the read
DecodeStep(t) ==
    pc[t] \in {<<"status", "decode">>, <<"stop", "decode">>} /\ pc'[t] = Idle

\* azimuth in [-180, 360] and elevation in [0, 180], in 1/Unit degree
InDomain(azi, eli) ==
    azi >= -180 * Unit /\ azi <= 360 * Unit /\ eli >= 0 /\ eli <= 180 * Unit

\* floor(p * (v + 360)) mod 10000
RawMod(p, v) == ((p * (v + 360 * Unit)) \div Unit) % 10000

\* the four decimal digits of x < 10000, most significant first
FourDigits(x) == <<x \div 1000, (x \div 100) % 10, (x \div 10) % 10, x % 10>>

\* hundreds*100 + tens*10 + units + tenths/10 - 360, in tenths of a degree
DecodeTenths(d) == d[1] * 1000 + d[2] * 100 + d[3] * 10 + d[4] - 3600

LastFour(s) == SubSeq(s, Len(s) - 3, Len(s))

LastWritten == written'[Len(written')]

\* C1: a set() call with the azimuth outside [-180, 360] or the elevation
\* outside [0, 180] fails at once with the range (assertion) error; the call
\* writes nothing to the transport and does not change the cached pulse
\* resolution, in every session state.
C1_OutOfRangeSetWritesNothing ==
    [][\A t \in Threads :
          (SetCallStep(t) /\ ~InDomain(result'[t].azi, result'[t].eli))
          => /\ result'[t].err = "AssertionError"
             /\ pc'[t] = Idle
             /\ written' = written
             /\ pulse' = pulse]_vars

C1_Witness ==
    \E t \in Threads :
        /\ result[t].op = "set"
        /\ result[t].azi = 400 * Unit
        /\ result[t].err = "AssertionError"
        /\ ~ser.open

\* C2: when status() or stop() has read a response whose PH byte (offset 5)
\* differs from its PV byte (offset 10), the call fails with the consistency
\* (assertion) error, returns no value and does not change the cached pulse.
C2_MismatchIsConsistencyError ==
    [][\A t \in Threads :
          (/\ DecodeStep(t)
           /\ Len(loc[t].rec) >= 11
           /\ loc[t].rec[6] # loc[t].rec[11])
          => /\ result'[t].err = "AssertionError"
             /\ result'[t].ret = <<>>
             /\ pulse' = pulse]_vars

C2_Witness ==
    \E t \in Threads, u \in Threads :
        /\ result[t].op = "status"
        /\ result[u].op = "stop"
        /\ result[t].err = "AssertionError"
        /\ result[u].err = "AssertionError"
        /\ Len(result[t].resp) = 12
        /\ result[t].resp[6] # result[t].resp[11]
        /\ result[t].resp[6] # pulse

\* self.ser.read(12) never hands status() or stop() anything but 12 bytes
ReadIsTwelveBytes ==
    \A t \in Threads :
        pc[t] \in {<<"status", "decode">>, <<"stop", "decode">>}
        => Len(loc[t].rec) = 12

\* C3: when the response the device sent to the command of a status() or
\* stop() has a length other than 12, the call fails with an error, returns no
\* value and does not update the cached pulse resolution.
C3_ShortResponseIsFramingError ==
    [][\A t \in Threads :
          (DecodeStep(t) /\ Len(result[t].sent) # 12)
          => /\ result'[t].err # "none"
             /\ result'[t].ret = <<>>
             /\ pulse' = pulse]_vars

\* C4: when set() finds the cached pulse resolution p >= 1 (line 160) and its
\* target is in the domain, it writes the frame 0x57, the four decimal digits of
\* floor(p*(az+360)) mod 10000, p, the four decimal digits of
\* floor(p*(el+360)) mod 10000, p, 0x2f, 0x20; set(90, 90) with p = 1 writes
\* [0x57,0,4,5,0,1,0,4,5,0,1,0x2f,0x20].
C4_SetFrame ==
    [][\A t \in Threads :
          (/\ SetLaterStep(t)
           /\ written' # written
           /\ result[t].pulse >= 1
           /\ InDomain(result[t].azi, result[t].eli))
          => /\ written' = Append(written,
                   <<87>> \o FourDigits(RawMod(result[t].pulse, result[t].azi))
                   \o <<result[t].pulse>>
                   \o FourDigits(RawMod(result[t].pulse, result[t].eli))
                   \o <<result[t].pulse, 47, 32>>)
             /\ (/\ result[t].pulse = 1
                 /\ result[t].azi = 90 * Unit
                 /\ result[t].eli = 90 * Unit)
                => LastWritten = <<87, 0, 4, 5, 0, 1, 0, 4, 5, 0, 1, 47, 32>>]_vars

\* C5, as stated: for every in-domain target and every pulse resolution
\* p >= 1, the response decoding formula applied to the four digit bytes that
\* set() encodes for an axis gives that axis's target truncated to one decimal.
C5_RoundTripAnyPulse ==
    [][\A t \in Threads :
          (/\ SetLaterStep(t)
           /\ written' # written
           /\ result[t].pulse >= 1
           /\ InDomain(result[t].azi, result[t].eli))
          => /\ DecodeTenths(SubSeq(LastWritten, 2, 5))
                   = IntTrunc(10 * result[t].azi, Unit)
             /\ DecodeTenths(SubSeq(LastWritten, 7, 10))
                   = IntTrunc(10 * result[t].eli, Unit)]_vars

\* C5, amended: for an in-domain target, the digits that set() computes for
\* an axis while self.pulse is 10 are the last four characters of its digit
\* string, they are the digit bytes of the frame it writes, and the response
\* decoding formula applied to them gives that axis's target rounded down to
\* one decimal place (which is the truncation for a target >= 0).
C5_RoundTripPulseTen ==
    [][\A t \in Threads :
          /\ (SetAzStep(t) /\ pulse = 10
              /\ InDomain(result[t].azi, result[t].eli))
             => /\ pc'[t] = <<"set", "el">>
                /\ Len(loc'[t].az) >= 4
                /\ DecodeTenths(LastFour(loc'[t].az)) = (10 * result[t].azi) \div Unit
          /\ (pc[t] = <<"set", "el">> /\ pc'[t] # pc[t] /\ pulse = 10)
             => /\ Len(loc'[t].el) >= 4
                /\ DecodeTenths(LastFour(loc'[t].el)) = (10 * result[t].eli) \div Unit
          /\ (SetLaterStep(t) /\ written' # written)
             => /\ SubSeq(LastWritten, 2, 5) = LastFour(loc[t].az)
                /\ SubSeq(LastWritten, 7, 10) = LastFour(loc[t].el)]_vars

C5_Witness ==
    \E t \in Threads :
        /\ result[t].op = "set"
        /\ result[t].err = "none"
        /\ pulse = 10
        /\ result[t].azi = -1
        /\ Len(written) = 2
        /\ SubSeq(written[2], 2, 5) = <<3, 5, 9, 8>>

\* C6: for a 12-byte response with PH = PV, status() returns azimuth
\* b[1]*100 + b[2]*10 + b[3] + b[4]/10 - 360, elevation b[6]*100 + b[7]*10 +
\* b[8] + b[9]/10 - 360 and pulse b[5], and sets the cached pulse resolution to
\* b[5]; [0x57,4,5,0,0,1,4,5,0,0,1,0x20] gives 90.0, 90.0, 1.
C6_StatusDecodes ==
    [][\A t \in Threads :
          (/\ DecodeStep(t)
           /\ pc[t][1] = "status"
           /\ Len(loc[t].rec) = 12
           /\ loc[t].rec[6] = loc[t].rec[11])
          => LET b == loc[t].rec
             IN  /\ result'[t].err = "none"
                 /\ result'[t].ret = <<DecodeTenths(SubSeq(b, 2, 5)),
                                        DecodeTenths(SubSeq(b, 7, 10)), b[6]>>
                 /\ pulse' = b[6]
                 /\ b = <<87, 4, 5, 0, 0, 1, 4, 5, 0, 0, 1, 32>>
                    => result'[t].ret = <<900, 900, 1>>]_vars

C6_Witness ==
    \E t \in Threads :
        /\ result[t].op = "status"
        /\ result[t].resp = <<87, 4, 5, 0, 0, 1, 4, 5, 0, 0, 1, 32>>
        /\ result[t].ret = <<900, 900, 1>>
        /\ pulse = 1

\* C7: a set() with an in-domain target that finds the cached pulse
\* resolution 0 (line 160) ends in an error before it reaches the transport:
\* it writes no frame and changes nothing of the session, so that a later
\* status() runs.
C7_PulseZeroSetFails ==
    [][\A t \in Threads :
          /\ (SetAzStep(t) /\ pulse = 0
              /\ InDomain(result[t].azi, result[t].eli))
             => pc'[t] = <<"set", "el">> /\ result'[t].pulse = 0
          /\ (/\ SetLaterStep(t)
              /\ result'[t].pulse = 0
              /\ InDomain(result'[t].azi, result'[t].eli))
             => /\ pc'[t] \in {Idle, <<"set", "el">>, <<"set", "ph">>}
                /\ pc'[t] = Idle => result'[t].err = "IndexError"
                /\ written' = written
                /\ ser' = ser /\ rx' = rx /\ pulse' = pulse
                /\ dev_path' = dev_path]_vars

C7_Witness ==
    \E t \in Threads, u \in Threads :
        /\ result[t].op = "set"
        /\ result[t].err = "IndexError"
        /\ result[t].pulse = 0
        /\ result[u].op = "status"
        /\ result[u].n > result[t].n
        /\ result[u].err = "none"
        /\ Len(written) = 2

\* C8: set_dev_path() with a path that cannot be opened ends with the session
\* holding an open transport on the previous device path and dev_path equal to
\* the previous path.
C8_FallsBackToPreviousPath ==
    [][\A t \in Threads :
          (/\ pc[t] = <<"set_dev_path", "open">>
           /\ pc'[t] # pc[t]
           /\ loc[t].path \notin Openable)
          => /\ pc'[t] = Idle
             /\ ser'.open
             /\ ser'.port = loc[t].old
             /\ dev_path' = loc[t].old]_vars

\* C9: at most one frame exchange is in flight: no command frame is written
\* between a caller's write and the end of that caller's read, and each
\* caller's read receives the response to its own command.
C9_OneExchangeInFlight ==
    [][/\ (\E t \in Threads :
              /\ pc[t][1] \in {"status", "stop"}
              /\ pc[t][2] \in {"flush", "read", "wait"}
              /\ pc'[t] = pc[t])
          => written' = written
       /\ \A t \in Threads :
            ReadStep(t) => \A i \in 1..12 : rx[i][2] = t]_vars

\* C10: stop() writes [0x57,0,0,0,0,0,0,0,0,0,0,0x0f,0x20] and status() the
\* same frame with 0x1f at offset 11, whatever the cached pulse resolution, and
\* for the same response bytes both end alike: the same error or the same
\* returned (azimuth, elevation, pulse), and the same update of the cached
\* pulse resolution (to the PH byte on a return, none on an error).
C10_StopIsStatusButSelector ==
    [][/\ \A t \in Threads :
            /\ (pc[t] = <<"stop", "write">> /\ pc'[t] = <<"stop", "flush">>)
               => written' = Append(written,
                                    <<87, 0, 0, 0, 0, 0, 0, 0, 0, 0, 0, 15, 32>>)
            /\ (pc[t] = <<"status", "write">> /\ pc'[t] = <<"status", "flush">>)
               => written' = Append(written,
                                    <<87, 0, 0, 0, 0, 0, 0, 0, 0, 0, 0, 31, 32>>)
            /\ DecodeStep(t)
               => pulse' = IF result'[t].err = "none" THEN loc[t].rec[6] ELSE pulse
       /\ \A t \in Threads, u \in Threads :
            (/\ result'[t].op = "status" /\ pc'[t] = Idle
             /\ result'[u].op = "stop" /\ pc'[u] = Idle
             /\ result'[t].err # "SerialException"
             /\ result'[u].err # "SerialException"
             /\ result'[t].resp = result'[u].resp)
            => /\ result'[t].err = result'[u].err
               /\ result'[t].ret = result'[u].ret]_vars

C10_Witness ==
    \E t \in Threads, u \in Threads :
        /\ result[t].op = "status"
        /\ result[u].op = "stop"
        /\ result[t].resp = result[u].resp
        /\ Len(result[t].resp) = 12
        /\ result[t].err = "none"
        /\ result[u].err = "none"
        /\ written = <<StatusCmd, StatusCmd, StopCmd>>
        /\ pulse = 10

====
